---- MODULE Spec2Model ----
(***************************************************************************)
(* URL shortener: base-62 code generator, repository over one table        *)
(* (url_shorters), the shortening service and its two HTTP handlers.       *)
(* Several workers run calls concurrently against the same storage; every  *)
(* repository operation opens its own session (one transaction).           *)
(***************************************************************************)
EXTENDS Integers, Sequences, FiniteSets, TLC

\* ---------------------------------------------------------------- bounds
NumWorkers == 2      \* concurrent callers of the service
MaxIds == 2          \* identifiers the sequence can still hand out in one run
SeqJump == 629       \* sequence values drawn before the run (Init chooses 0 or SeqJump)
MaxNum == 3850       \* largest generator input of the generator specification
NegNum == 2          \* most negative generator input of the generator specification
MaxUrlLen == 2048    \* original_url = Column(String(2048), ...)

NULL == <<"NULL">>   \* SQL NULL / Python None where a code string is expected: equal to no string
None == [none |-> TRUE]   \* Python None where a row object is expected

NoneUrl == "<None>"  \* Python None / SQL NULL where a URL string is expected: equal to no URL

Workers == 1..NumWorkers
Urls == {"https://example.com/a", "https://example.com/b"}

\* ------------------------------------------------------- code generator
BASE62_ALPHABET ==
  << "0","1","2","3","4","5","6","7","8","9",
     "A","B","C","D","E","F","G","H","I","J","K","L","M",
     "N","O","P","Q","R","S","T","U","V","W","X","Y","Z",
     "a","b","c","d","e","f","g","h","i","j","k","l","m",
     "n","o","p","q","r","s","t","u","v","w","x","y","z" >>

BASE == Len(BASE62_ALPHABET)

\* faulty variant: the symbols are joined in the order the loop produced them
reversed_not(s) == s

\* ''.join(reversed(s))
reversed(s) == [i \in 1..Len(s) |-> s[Len(s) + 1 - i]]

\* faulty variant: every pass of the loop overwrites s instead of appending to it
RECURSIVE encode_loop_overwrite(_, _)
encode_loop_overwrite(num, s) ==
  IF num > 0
    THEN encode_loop_overwrite(num \div BASE, <<BASE62_ALPHABET[(num % BASE) + 1]>>)
    ELSE s

\* the while loop: num, rem = divmod(num, BASE); s.append(BASE62_ALPHABET[rem])
RECURSIVE encode_loop(_, _)
encode_loop(num, s) ==
  IF num > 0
    THEN encode_loop(num \div BASE, Append(s, BASE62_ALPHABET[(num % BASE) + 1]))
    ELSE s

\* faulty variant: a negative input is encoded by its magnitude
encode_base62_abs(num) ==
  IF num = 0 THEN <<BASE62_ALPHABET[1]>>
  ELSE reversed(encode_loop(IF num < 0 THEN 0 - num ELSE num, <<>>))

\* faulty variant: no special case for zero
encode_base62_nozero(num) == reversed(encode_loop(num, <<>>))

\* a code is the sequence of its characters
encode_base62(num) ==
  IF num = 0 THEN <<BASE62_ALPHABET[1]>> ELSE reversed(encode_loop(num, <<>>))

\* faulty variant: the code is computed from the next identifier
generate_next(link) == encode_base62(link + 1)

\* UrlShortenerGenerator.generate
generate(link) == encode_base62(link)

VARIABLES
  db,             \* table url_shorters: committed rows, keyed by id
  seq_base,       \* last value the autoincrement sequence had handed out before the run
  allocated,      \* ids the sequence has handed out in the run (committed or burned)
  pc,             \* per worker: position in the current call
  op,             \* per worker: "shorten" | "resolve" | "none"
  http,           \* per worker: TRUE when the call was made by an HTTP handler
  arg,            \* per worker: the call's argument (url, or code)
  url_shortener,  \* per worker: local variable url_shortener of generate_url_shortener
  shorted_link,   \* per worker: local variable shorted_link
  result,         \* per worker: code returned by generate_url_shortener, NULL before
  record,         \* per worker: row returned by get_real_link, None when none
  error,          \* per worker: exception raised to the caller, "none" when none
  response,       \* per worker: HTTP response of the handler
  events,         \* per worker: storage steps of the current call, in order
  known,          \* per worker: URLs of the calls that had returned arg when the lookup ran
  fault,          \* per worker: exception raised inside the repository, "none" when none
  session,        \* per worker: calls made on the session of its last repository operation
  checks,         \* per worker: what the database and the cache answered to its /health call
  encNum,         \* generator specification: the input
  encOut          \* generator specification: the output, NULL before the call

svcVars == <<db, seq_base, allocated, pc, op, http, arg, url_shortener, shorted_link,
             result, record, error, response, events, known, fault, session,
             checks>>
encVars == <<encNum, encOut>>
vars == <<svcVars, encVars>>

\* ------------------------------------------------------------- storage
\* ids the sequence can hand out in this run: the next MaxIds after seq_base, in any
\* order (transactions commit in an order of their own), each at most once
IdPool(base) == (base + 1)..(base + MaxIds)
FreeIds == IdPool(seq_base) \ allocated

\* UrlShorter(original_url=..., shorted_url=...): id from the sequence,
\* created_at = now() by server default, updated_at NULL
UrlShorter(id, original_url, shorted_url) ==
  [id |-> id, original_url |-> original_url, shorted_url |-> shorted_url,
   created_at |-> "now()", updated_at |-> "NULL"]

\* faulty variant: the column is Text and nullable, every value is stored as given
varchar_store_any(u) == [value |-> u]

\* original_url = Column(String(2048), nullable=False) on PostgreSQL: NULL violates the
\* not-null constraint; a string of more than 2048 characters is refused, unless the
\* characters beyond the bound are all spaces, which are cut off
varchar_store(u) ==
  IF u = NoneUrl THEN [raises |-> "IntegrityError"]
  ELSE IF Len(u) <= MaxUrlLen THEN [value |-> u]
  ELSE IF \A k \in (MaxUrlLen + 1)..Len(u) : SubSeq(u, k, k) = " "
    THEN [value |-> SubSeq(u, 1, MaxUrlLen)]
    ELSE [raises |-> "DataError"]

\* session.add(row): the row is pending in the session's transaction
session_add(table, row) == table @@ (row.id :> row)

\* session.get(UrlShorter, url_id)
session_get(table, url_id) == IF url_id \in DOMAIN table THEN table[url_id] ELSE None

\* faulty variant: the row is written anew from kwargs, created_at is not carried over
setattr_fields_reset(row, kwargs) ==
  [f \in DOMAIN row |->
     IF f \in DOMAIN kwargs THEN kwargs[f]
     ELSE IF f = "updated_at" THEN "now()"
     ELSE IF f = "created_at" THEN "NULL" ELSE row[f]]

\* for field, value in kwargs.items(): if hasattr(row, field): setattr(row, field, value);
\* updated_at takes now() on update
setattr_fields(row, kwargs) ==
  [f \in DOMAIN row |->
     IF f \in DOMAIN kwargs THEN kwargs[f]
     ELSE IF f = "updated_at" THEN "now()" ELSE row[f]]

\* session.commit(): the transaction's table becomes the committed one
session_commit(committed, work) == work

\* faulty variant: a rollback that leaves the transaction's writes in place
session_rollback_keeps(committed, work) == work

\* session.rollback(): the transaction's writes are discarded
session_rollback(committed, work) == committed

\* faulty variant: the session is closed on the normal path only (no finally)
get_session_noclose(body_raises, commit_raises) ==
  IF body_raises THEN <<"open", "rollback">>
  ELSE IF commit_raises THEN <<"open", "commit_failed", "rollback">>
  ELSE <<"open", "commit", "close">>

\* DatabaseConnector.get_session: session = factory(); try: yield session;
\* session.commit() / except Exception: session.rollback(); raise / finally:
\* session.close(). The calls made on the session, in order.
get_session(body_raises, commit_raises) ==
  <<"open">>
  \o (IF body_raises THEN <<"rollback">>
      ELSE IF commit_raises THEN <<"commit_failed", "rollback">>
      ELSE <<"commit">>)
  \o <<"close">>

\* the exception a repository read raises: except Exception -> RuntimeError
read_error(exc) == "RuntimeError"

\* storage exceptions a select or the commit of a read can raise
ReadExceptions == {"OperationalError"}

\* the exception a repository write raises for a storage exception
write_error(exc) == IF exc = "IntegrityError" THEN "ValueError" ELSE "RuntimeError"

StorageExceptions == {"IntegrityError", "OperationalError"}

\* exceptions the insert of u can raise: the one the column raises for u, or a failure
\* of the storage itself
InsertExceptions(u) ==
  IF "raises" \in DOMAIN varchar_store(u)
    THEN {varchar_store(u).raises, "OperationalError"}
    ELSE StorageExceptions

\* s starts with t
StartsWith(s, t) == Len(t) <= Len(s) /\ SubSeq(s, 1, Len(t)) = t

\* faulty variant: the where clause matches every code the argument is a prefix of
select_by_prefix(table, shorted_url) ==
  {table[i] : i \in {j \in DOMAIN table : StartsWith(table[j].shorted_url, shorted_url)}}

\* a symbol with its upper-case letter folded to lower case
lower_symbol(ch) ==
  LET i == CHOOSE k \in 1..Len(BASE62_ALPHABET) : BASE62_ALPHABET[k] = ch
  IN IF i \in 11..36 THEN BASE62_ALPHABET[i + 26] ELSE ch
lower(s) == [k \in 1..Len(s) |-> lower_symbol(s[k])]

\* faulty variant: the where clause compares without regard to case
select_case_insensitive(table, shorted_url) ==
  {table[i] : i \in {j \in DOMAIN table :
      /\ table[j].shorted_url # NULL
      /\ lower(table[j].shorted_url) = lower(shorted_url)}}

\* select(UrlShorter).where(UrlShorter.shorted_url == shorted_url):
\* comparing with None is rendered IS NULL, any other value is an exact match
select_by_shorted_url(table, shorted_url) ==
  {table[i] : i \in {j \in DOMAIN table : table[j].shorted_url = shorted_url}}

\* Result.scalar_one_or_none(): None, the one row, or MultipleResultsFound
scalar_one_or_none(rows) ==
  IF rows = {} THEN None
  ELSE IF Cardinality(rows) = 1 THEN CHOOSE r \in rows : TRUE
  ELSE [raises |-> "MultipleResultsFound"]

\* codes a caller may present: every code the run can assign, a prefix of an assigned
\* code ("A" of "AA") and a case variant ("aa" of "AA")
LookupCodes ==
  {encode_base62(i) : i \in IdPool(seq_base)} \cup {<<"A">>, <<"a", "a">>}

NoResponse == [status |-> 0]

\* what a collaborator answers to a connectivity check
DbOutcomes == {"ok", "OperationalError"}
RedisOutcomes == {"PONG", "ConnectionError"}
NoChecks == [db |-> "none", redis |-> "none"]

\* DatabaseConnector.test_connection: SELECT 1 on a connection; True, or False when
\* anything raises
test_connection(outcome) == IF outcome = "ok" THEN TRUE ELSE FALSE

\* faulty variant: the cache is reported reachable without looking at the answer
ping_always(outcome) == TRUE

\* RedisConnector.ping: client.ping(); True, or False when anything raises
ping(outcome) == IF outcome = "PONG" THEN TRUE ELSE FALSE

\* GET /health: {"db": db.test_connection(), "redis": redis.ping()}
health(db_outcome, redis_outcome) ==
  [status |-> 200, db |-> test_connection(db_outcome), redis |-> ping(redis_outcome)]

\* ------------------------------------------------------------------ Init
SvcInit ==
  /\ db = <<>>
  /\ seq_base \in {0, SeqJump}
  /\ allocated = {}
  /\ pc = [p \in Workers |-> "idle"]
  /\ op = [p \in Workers |-> "none"]
  /\ http = [p \in Workers |-> FALSE]
  /\ arg = [p \in Workers |-> NULL]
  /\ url_shortener = [p \in Workers |-> None]
  /\ shorted_link = [p \in Workers |-> NULL]
  /\ result = [p \in Workers |-> NULL]
  /\ record = [p \in Workers |-> None]
  /\ error = [p \in Workers |-> "none"]
  /\ response = [p \in Workers |-> NoResponse]
  /\ events = [p \in Workers |-> <<>>]
  /\ known = [p \in Workers |-> {}]
  /\ fault = [p \in Workers |-> "none"]
  /\ session = [p \in Workers |-> <<>>]
  /\ checks = [p \in Workers |-> NoChecks]

Init == SvcInit /\ encNum = 0 /\ encOut = NULL

\* a worker is free to take a new call: the previous one ended (a crashed worker is
\* restarted)
Free(p) == pc[p] \in {"idle", "crashed", "done", "failed", "rejected"}

\* entry of a call: fresh locals
Enter(p, o, a, h, at) ==
  /\ Free(p)
  /\ pc' = [pc EXCEPT ![p] = at]
  /\ op' = [op EXCEPT ![p] = o]
  /\ http' = [http EXCEPT ![p] = h]
  /\ arg' = [arg EXCEPT ![p] = a]
  /\ url_shortener' = [url_shortener EXCEPT ![p] = None]
  /\ shorted_link' = [shorted_link EXCEPT ![p] = NULL]
  /\ result' = [result EXCEPT ![p] = NULL]
  /\ record' = [record EXCEPT ![p] = None]
  /\ error' = [error EXCEPT ![p] = "none"]
  /\ events' = [events EXCEPT ![p] = <<>>]
  /\ known' = [known EXCEPT ![p] = {}]
  /\ fault' = [fault EXCEPT ![p] = "none"]
  /\ session' = [session EXCEPT ![p] = <<>>]
  /\ UNCHANGED <<db, seq_base, allocated, encVars>>

\* request bodies of POST /api/generator: the url field, by its parts (a text without
\* "://" has no scheme and no host)
Bodies ==
  {[scheme |-> "https", host |-> "example.com", path |-> "/a"],
   [scheme |-> "https", host |-> "example.com", path |-> "/b"],
   [scheme |-> "ftp", host |-> "example.com", path |-> "/a"],
   [scheme |-> "", host |-> "", path |-> "not a url"]}

\* the url field as the client sent it
body_text(b) == IF b.scheme = "" THEN b.path ELSE b.scheme \o "://" \o b.host \o b.path

\* faulty variant: the field is declared url: str, every text is accepted
HttpUrl_valid_any(b) == TRUE

\* url: HttpUrl accepts a URL with scheme http or https and a host
HttpUrl_valid(b) == b.scheme \in {"http", "https"} /\ b.host # ""

\* str(url.url): the text of the validated URL, put together from its parts
HttpUrl_str(b) == b.scheme \o "://" \o b.host \o b.path

\* generate_url_shortener(url) is called with a url of U, directly or by
\* POST /api/generator with a body of B (which hands over str(url.url), the text of an
\* already validated URL)
shorten_called(p, U, B) ==
  /\ \/ \E u \in U : Enter(p, "shorten", u, FALSE, "create")
     \/ \E b \in B :
          HttpUrl_valid(b) /\ Enter(p, "shorten", HttpUrl_str(b), TRUE, "create")
  /\ response' = [response EXCEPT ![p] = NoResponse]
  /\ checks' = [checks EXCEPT ![p] = NoChecks]

\* POST /api/generator with a body of B that URLInputDto does not accept: the framework
\* answers 422 before the handler body runs; the service is not called
post_rejected(p, B) ==
  \E b \in B :
    /\ ~HttpUrl_valid(b)
    /\ Enter(p, "shorten", body_text(b), TRUE, "rejected")
    /\ response' = [response EXCEPT ![p] = [status |-> 422]]
    /\ checks' = [checks EXCEPT ![p] = NoChecks]

StartShorten(p) == shorten_called(p, Urls, Bodies)

PostRejected(p) == post_rejected(p, Bodies)

\* n characters of path
RECURSIVE Pad(_)
Pad(n) ==
  IF n = 0 THEN ""
  ELSE IF n % 2 = 0 THEN LET h == Pad(n \div 2) IN h \o h
  ELSE "x" \o Pad(n - 1)

\* URLs at the bound of the original_url column: the longest one it takes, and one
\* character more
UrlStem == "https://example.com"
MaxUrl == UrlStem \o "/" \o Pad(MaxUrlLen - Len(UrlStem) - 1)
LongUrl == UrlStem \o "/" \o Pad(MaxUrlLen - Len(UrlStem))

\* arguments of direct calls at the bounds: the two URLs, and no URL at all
BoundUrls == {MaxUrl, LongUrl, NoneUrl}

\* request bodies at the bounds: the two URLs, and a body without url
BoundBodies ==
  {[scheme |-> "https", host |-> "example.com", path |-> "/" \o Pad(MaxUrlLen - Len(UrlStem) - 1)],
   [scheme |-> "https", host |-> "example.com", path |-> "/" \o Pad(MaxUrlLen - Len(UrlStem))],
   [scheme |-> "", host |-> "", path |-> ""]}

StartShortenBound(p) == shorten_called(p, BoundUrls, BoundBodies)

PostRejectedBound(p) == post_rejected(p, BoundBodies)

\* get_real_link(code) is called, directly or by GET /api/generator/{shorted_url}
StartResolve(p) ==
  /\ \E c \in LookupCodes, h \in BOOLEAN : Enter(p, "resolve", c, h, "lookup")
  /\ response' = [response EXCEPT ![p] = NoResponse]
  /\ checks' = [checks EXCEPT ![p] = NoChecks]

\* GET /health: both checks run and the handler answers, in one step
Health(p) ==
  \E d \in DbOutcomes, r \in RedisOutcomes :
    /\ Enter(p, "health", NULL, TRUE, "done")
    /\ checks' = [checks EXCEPT ![p] = [db |-> d, redis |-> r]]
    /\ response' = [response EXCEPT ![p] = health(d, r)]

\* the call of worker p ends by raising exc
Raise(p, exc) ==
  /\ pc' = [pc EXCEPT ![p] = "failed"]
  /\ error' = [error EXCEPT ![p] = exc]

\* ---------------------------------------------------------------- HTTP
\* an exception that leaves a handler is answered 500 by the framework
Unhandled(exc) == [status |-> 500, exc |-> exc]

\* POST /api/generator: URLResponseDto(url=generated_id)
post_response(raised, exc, generated_id) ==
  IF raised THEN Unhandled(exc)
  ELSE [status |-> 200, url |-> generated_id]

\* GET /api/generator/{shorted_url}: URLResponseDto(url=url_shorterner.original_url)
get_response(raised, exc, url_shorterner) ==
  IF raised THEN Unhandled(exc)
  ELSE IF url_shorterner = None THEN Unhandled("AttributeError")
  ELSE [status |-> 200, url |-> url_shorterner.original_url]

\* the handler answers in the step in which the service call ends
Respond(p) ==
  response' = [response EXCEPT ![p] =
    IF http[p] /\ pc'[p] \in {"done", "failed"}
      THEN IF op[p] = "shorten"
             THEN post_response(pc'[p] = "failed", error'[p], result'[p])
             ELSE get_response(pc'[p] = "failed", error'[p], record'[p])
      ELSE NoResponse]

\* -------------------------------------------------- repository: create
\* faulty variant: create hands back the row already stored for the same URL
create_row_dedupe(table, id, original_url, shorted_url) ==
  IF \E i \in DOMAIN table : table[i].original_url = original_url
    THEN table[CHOOSE i \in DOMAIN table : table[i].original_url = original_url]
    ELSE UrlShorter(id, original_url, shorted_url)

\* the row create builds and adds: always a new one, whatever the table holds
create_row(table, id, original_url, shorted_url) ==
  UrlShorter(id, original_url, shorted_url)

\* UrlShorterRepository.create(url): add, commit, return the row with its id
CreateOk(p) ==
  /\ pc[p] = "create"
  /\ "value" \in DOMAIN varchar_store(arg[p])
  /\ \E id \in FreeIds :
       LET row == create_row(db, id, arg[p], NULL)
           stored == [row EXCEPT !.original_url = varchar_store(arg[p]).value]
           work == session_add(db, stored)
       IN /\ db' = session_commit(db, work)
          /\ allocated' = allocated \cup {id}
          /\ url_shortener' = [url_shortener EXCEPT ![p] = row]
  /\ pc' = [pc EXCEPT ![p] = "generate"]
  /\ events' = [events EXCEPT ![p] = Append(@, "insert")]
  /\ session' = [session EXCEPT ![p] = get_session(FALSE, FALSE)]
  /\ UNCHANGED <<seq_base, op, http, arg, shorted_link, result, record, error, response,
                 known, fault, checks, encVars>>

\* create raises: the session is rolled back, IntegrityError becomes ValueError and
\* anything else RuntimeError; the sequence value may already have been drawn
CreateFail(p) ==
  /\ pc[p] = "create"
  /\ \E exc \in InsertExceptions(arg[p]), burned \in {{}} \cup {{i} : i \in FreeIds} :
       LET work == IF burned = {} THEN db
                   ELSE session_add(db, create_row(db, CHOOSE i \in burned : TRUE, arg[p], NULL))
       IN /\ db' = session_rollback(db, work)
          /\ allocated' = allocated \cup burned
          /\ Raise(p, write_error(exc))
          /\ fault' = [fault EXCEPT ![p] = exc]
  /\ events' = [events EXCEPT ![p] = Append(@, "insert_failed")]
  /\ session' = [session EXCEPT ![p] = get_session(TRUE, FALSE)]
  /\ UNCHANGED <<seq_base, op, http, arg, url_shortener, shorted_link, result, record,
                 known, checks, encVars>>
  /\ Respond(p)

\* ------------------------------------------------------------- service
\* shorted_link = self.shortener.generate(url_shortener.id)
Generate(p) ==
  /\ pc[p] = "generate"
  /\ shorted_link' = [shorted_link EXCEPT ![p] = generate(url_shortener[p].id)]
  /\ pc' = [pc EXCEPT ![p] = "update"]
  /\ UNCHANGED <<db, seq_base, allocated, op, http, arg, url_shortener, result, record,
                 error, response, events, known, fault, session, checks, encVars>>

\* faulty variant: the update is aimed at the newest row of the table
update_target_newest(p) == CHOOSE i \in DOMAIN db : \A j \in DOMAIN db : j <= i

\* the id the service passes to update: url_id=url_shortener.id
update_target(p) == url_shortener[p].id

\* -------------------------------------------------- repository: update
\* update(url_id, shorted_url=...): get, setattr, flush, refresh, commit on exit
UpdateOk(p) ==
  /\ pc[p] = "update"
  /\ LET url_id == update_target(p)
         row == session_get(db, url_id)
     IN IF row = None
          THEN /\ url_shortener' = [url_shortener EXCEPT ![p] = None]
               /\ UNCHANGED db
          ELSE LET new == setattr_fields(row, [shorted_url |-> shorted_link[p]])
                   work == [db EXCEPT ![url_id] = new]
               IN /\ db' = session_commit(db, work)
                  /\ url_shortener' = [url_shortener EXCEPT ![p] = new]
  /\ pc' = [pc EXCEPT ![p] = "return"]
  /\ events' = [events EXCEPT ![p] = Append(@, "update")]
  /\ session' = [session EXCEPT ![p] = get_session(FALSE, FALSE)]
  /\ UNCHANGED <<seq_base, allocated, op, http, arg, shorted_link, result, record, error,
                 response, known, fault, checks, encVars>>

\* faulty variant: the exception is swallowed and the row object is returned as updated
update_swallows(p, exc) ==
  /\ pc' = [pc EXCEPT ![p] = "return"]
  /\ url_shortener' = [url_shortener EXCEPT ![p] =
        setattr_fields(@, [shorted_url |-> shorted_link[p]])]
  /\ UNCHANGED error

\* faulty variant: the failed update is tried again instead of being raised
update_retries(p, exc) ==
  /\ UNCHANGED <<pc, error, url_shortener>>

\* except IntegrityError: raise ValueError / except Exception: raise RuntimeError
update_raises(p, exc) ==
  /\ Raise(p, write_error(exc))
  /\ UNCHANGED url_shortener

\* update raises, in its body or in the commit on exit: rollback, nothing is written
UpdateFail(p) ==
  /\ pc[p] = "update"
  /\ LET url_id == update_target(p)
         row == session_get(db, url_id)
         work == IF row = None THEN db
                 ELSE [db EXCEPT ![url_id] = setattr_fields(row, [shorted_url |-> shorted_link[p]])]
     IN db' = session_rollback(db, work)
  /\ \E exc \in StorageExceptions, in_body \in BOOLEAN :
       /\ update_raises(p, exc)
       /\ fault' = [fault EXCEPT ![p] = exc]
       /\ session' = [session EXCEPT ![p] = get_session(in_body, ~in_body)]
  /\ events' = [events EXCEPT ![p] = Append(@, "update_failed")]
  /\ UNCHANGED <<seq_base, allocated, op, http, arg, shorted_link, result, record,
                 known, checks, encVars>>
  /\ Respond(p)

\* return url_shortener.shorted_url (AttributeError when update returned None)
Return(p) ==
  /\ pc[p] = "return"
  /\ IF url_shortener[p] = None
       THEN /\ Raise(p, "AttributeError")
            /\ UNCHANGED result
       ELSE /\ result' = [result EXCEPT ![p] = url_shortener[p].shorted_url]
            /\ pc' = [pc EXCEPT ![p] = "done"]
            /\ UNCHANGED error
  /\ UNCHANGED <<db, seq_base, allocated, op, http, arg, url_shortener, shorted_link,
                 record, events, known, fault, session, checks, encVars>>
  /\ Respond(p)

\* the worker dies (or its request is abandoned) inside generate_url_shortener, after
\* create returned; nothing it has committed is undone
Crash(p) ==
  /\ pc[p] \in {"generate", "update", "return"}
  /\ pc' = [pc EXCEPT ![p] = "crashed"]
  /\ UNCHANGED <<db, seq_base, allocated, op, http, arg, url_shortener, shorted_link,
                 result, record, error, response, events, known, fault, session, checks, encVars>>

\* URLs of the shorten calls that have returned code c to their caller
ReturnedFor(c) ==
  {arg[q] : q \in {w \in Workers : op[w] = "shorten" /\ pc[w] = "done" /\ result[w] = c}}

\* get_real_link(code) -> get_by_shorted_url(code): one select, scalar_one_or_none
LookupOk(p) ==
  /\ pc[p] = "lookup"
  /\ LET found == scalar_one_or_none(select_by_shorted_url(db, arg[p]))
     IN IF "raises" \in DOMAIN found
          THEN /\ Raise(p, read_error(found.raises))
               /\ fault' = [fault EXCEPT ![p] = found.raises]
               /\ session' = [session EXCEPT ![p] = get_session(TRUE, FALSE)]
               /\ UNCHANGED record
          ELSE /\ record' = [record EXCEPT ![p] = found]
               /\ pc' = [pc EXCEPT ![p] = "done"]
               /\ session' = [session EXCEPT ![p] = get_session(FALSE, FALSE)]
               /\ UNCHANGED <<error, fault>>
  /\ events' = [events EXCEPT ![p] = Append(@, "select")]
  /\ known' = [known EXCEPT ![p] = ReturnedFor(arg[p])]
  /\ UNCHANGED <<db, seq_base, allocated, op, http, arg, url_shortener, shorted_link,
                 result, checks, encVars>>
  /\ Respond(p)

\* the select or the session fails: except Exception -> RuntimeError
LookupFail(p) ==
  /\ pc[p] = "lookup"
  /\ \E exc \in ReadExceptions, in_body \in BOOLEAN :
       /\ Raise(p, read_error(exc))
       /\ fault' = [fault EXCEPT ![p] = exc]
       /\ session' = [session EXCEPT ![p] = get_session(in_body, ~in_body)]
  /\ events' = [events EXCEPT ![p] = Append(@, "select_failed")]
  /\ UNCHANGED <<db, seq_base, allocated, op, http, arg, url_shortener, shorted_link,
                 result, record, known, checks, encVars>>
  /\ Respond(p)

\* ------------------------------------------------------- specification
Next ==
  \E p \in Workers :
    \/ StartShorten(p)
    \/ PostRejected(p)
    \/ CreateOk(p)
    \/ CreateFail(p)
    \/ Generate(p)
    \/ UpdateOk(p)
    \/ UpdateFail(p)
    \/ Return(p)
    \/ Crash(p)
    \/ StartResolve(p)
    \/ LookupOk(p)
    \/ LookupFail(p)
    \/ Health(p)

Spec == Init /\ [][Next]_vars

\* ------------------- specification at the bounds of the original_url column
\* the same service, called with the arguments and bodies at the bounds
NextBound ==
  \E p \in Workers :
    \/ StartShortenBound(p)
    \/ PostRejectedBound(p)
    \/ CreateOk(p)
    \/ CreateFail(p)
    \/ Generate(p)
    \/ UpdateOk(p)
    \/ UpdateFail(p)
    \/ Return(p)
    \/ Crash(p)
    \/ StartResolve(p)
    \/ LookupOk(p)
    \/ LookupFail(p)
    \/ Health(p)

SpecBound == Init /\ [][NextBound]_vars

\* ------------------------------------- specification of the generator
\* encode_base62 is applied to one input drawn from -NegNum..MaxNum
InitEnc ==
  /\ SvcInit
  /\ seq_base = 0
  /\ encNum \in (0 - NegNum)..MaxNum
  /\ encOut = NULL

Encode ==
  /\ encOut = NULL
  /\ encOut' = encode_base62(encNum)
  /\ UNCHANGED <<svcVars, encNum>>

NextEnc == Encode

SpecEnc == InitEnc /\ [][NextEnc]_vars

\* ---------------------------------------------------------------- claims
ShortenDone(p) == op[p] = "shorten" /\ pc[p] = "done"
ResolveDone(p) == op[p] = "resolve" /\ pc[p] = "done"
IsRow(r) == "original_url" \in DOMAIN r
HasCode(i) == db[i].shorted_url # NULL

\* C1: when shorten(u) has returned code c, resolve(c) returns a row whose original_url
\* is u: the lookup of c in the current table gives it, and so did every resolve(c) that
\* ran after the return, whatever other calls ran before or in between.
C1_ShortenThenResolve ==
  /\ \A p \in Workers : ShortenDone(p) =>
        LET found == scalar_one_or_none(select_by_shorted_url(db, result[p]))
        IN IsRow(found) /\ found.original_url = arg[p]
  /\ \A q \in Workers : ResolveDone(q) =>
        \A u \in known[q] : IsRow(record[q]) /\ record[q].original_url = u

C1_Witness ==
  \E p, q \in Workers :
    /\ ShortenDone(p) /\ ResolveDone(q)
    /\ arg[q] = result[p]
    /\ known[q] = {arg[p]}
    /\ Cardinality(DOMAIN db) = MaxIds

\* C2: no two distinct rows hold the same non-null shorted_url.
C2_UniqueCodes ==
  \A i, j \in DOMAIN db :
    (i # j /\ HasCode(i) /\ HasCode(j)) => db[i].shorted_url # db[j].shorted_url

C2_Witness ==
  \E i, j \in DOMAIN db : i # j /\ HasCode(i) /\ HasCode(j) /\ Len(db[i].shorted_url) > 1

\* C3: encode_base62 is injective over the non-negative integers: the code of a
\* non-negative input is the code of no other non-negative input.
C3_Injective ==
  (encOut # NULL /\ encNum >= 0) =>
    \A b \in 0..MaxNum : b # encNum => encode_base62(b) # encOut

C3_Witness == encOut # NULL /\ encNum >= BASE * BASE /\ Len(encOut) = 3

\* C4: within one shorten call the steps run insert -> encode -> update -> return: the
\* update runs only once the insert has committed and given its id, a row's code is
\* written only by the update of the call that inserted it, and the value returned is
\* encode(id) and is the shorted_url stored on that row.
C4_Order ==
  \A p \in Workers : op[p] = "shorten" =>
    /\ pc[p] \in {"generate", "update"} =>
          /\ events[p] = <<"insert">>
          /\ IsRow(url_shortener[p]) /\ url_shortener[p].id \in DOMAIN db
          /\ ~HasCode(url_shortener[p].id)
    /\ pc[p] = "update" => shorted_link[p] = encode_base62(url_shortener[p].id)
    /\ pc[p] \in {"return", "done"} =>
          /\ events[p] = <<"insert", "update">>
          /\ IsRow(url_shortener[p]) /\ url_shortener[p].id \in DOMAIN db
    /\ pc[p] = "done" =>
          /\ result[p] = encode_base62(url_shortener[p].id)
          /\ result[p] = db[url_shortener[p].id].shorted_url

C4_CodeWrittenByOwnUpdate ==
  \A i \in DOMAIN db' :
    (i \notin DOMAIN db \/ db'[i].shorted_url # db[i].shorted_url) =>
      \E p \in Workers :
        \/ /\ pc[p] = "create" /\ pc'[p] = "generate"
           /\ i \notin DOMAIN db /\ db'[i].shorted_url = NULL
           /\ url_shortener'[p].id = i
        \/ /\ pc[p] = "update" /\ pc'[p] = "return"
           /\ i \in DOMAIN db /\ url_shortener[p].id = i
           /\ db'[i].shorted_url = encode_base62(i)

C4_Sequencing == [](C4_Order) /\ [][C4_CodeWrittenByOwnUpdate]_vars

C4_Witness ==
  \E p, q \in Workers :
    /\ p # q /\ ShortenDone(p) /\ op[q] = "shorten" /\ pc[q] = "update"
    /\ url_shortener[q].id < url_shortener[p].id

FailedAt(p, ev) == pc[p] = "failed" /\ events[p] # <<>> /\ events[p][Len(events[p])] = ev

\* C5: shorten reports no false success: when it has returned a code, the insert and
\* the update are both committed (the row is stored with that code and the URL given);
\* when the insert or the update (the commit on leaving the session included) failed,
\* the call has raised ValueError or RuntimeError and returned no code.
C5_NoFalseSuccess ==
  \A p \in Workers : op[p] = "shorten" =>
    /\ pc[p] = "done" =>
          /\ events[p] = <<"insert", "update">>
          /\ result[p] # NULL /\ error[p] = "none"
          /\ \E i \in DOMAIN db :
                /\ db[i].shorted_url = result[p]
                /\ db[i].original_url = arg[p]
                /\ db[i].id = url_shortener[p].id
    /\ (events[p] # <<>> /\ events[p][Len(events[p])] \in {"insert_failed", "update_failed"}) =>
          /\ pc[p] = "failed"
          /\ error[p] \in {"ValueError", "RuntimeError"}
          /\ result[p] = NULL

C5_Witness ==
  \E p, q \in Workers :
    /\ ShortenDone(p)
    /\ op[q] = "shorten" /\ FailedAt(q, "update_failed") /\ error[q] = "RuntimeError"

\* the call of worker p left its row behind: the update failed, or the worker
\* crashed or was abandoned between the insert and the update
Orphaned(p) ==
  /\ op[p] = "shorten"
  /\ \/ FailedAt(p, "update_failed")
     \/ pc[p] = "crashed" /\ events[p] = <<"insert">>

\* C6: when the update failed, or the caller crashed between the insert and the update,
\* the inserted row stays stored with its id and original_url and with shorted_url
\* NULL, whatever calls run afterwards.
C6_OrphanStays ==
  \A p \in Workers : Orphaned(p) =>
    /\ url_shortener[p].id \in DOMAIN db
    /\ db[url_shortener[p].id] = UrlShorter(url_shortener[p].id, arg[p], NULL)

C6_Witness ==
  \E p, q \in Workers :
    /\ p # q /\ Orphaned(p) /\ pc[p] = "failed"
    /\ ShortenDone(q) /\ arg[q] = arg[p] /\ url_shortener[q].id > url_shortener[p].id

\* C7: a shorten call whose insert fails raises (ValueError or RuntimeError), returns
\* no code, and leaves the stored rows exactly as they were before the step.
C7_InsertFailStep ==
  \A p \in Workers :
    (pc[p] = "create" /\ pc'[p] # "create" /\ pc'[p] # "generate") =>
      /\ db' = db
      /\ pc'[p] = "failed"
      /\ error'[p] \in {"ValueError", "RuntimeError"}
      /\ result'[p] = NULL

C7_InsertFailureLeavesNoRow == [][C7_InsertFailStep]_vars

C7_Witness ==
  \E p \in Workers :
    /\ op[p] = "shorten" /\ FailedAt(p, "insert_failed")
    /\ allocated # DOMAIN db /\ DOMAIN db # {}

\* C8: resolve(c) for a code c that no stored row carries returns no row (None).
C8_UnknownCodeNotFound ==
  \A q \in Workers :
    (ResolveDone(q) /\ \A i \in DOMAIN db : db[i].shorted_url # arg[q]) => record[q] = None

C8_Witness ==
  \E q \in Workers :
    /\ ResolveDone(q) /\ record[q] = None
    /\ \E i \in DOMAIN db : HasCode(i) /\ arg[q] # db[i].shorted_url
                               /\ StartsWith(db[i].shorted_url, arg[q])
    /\ \E i \in DOMAIN db : ~HasCode(i)

\* C9: GET /api/generator/{shorted_url} answers an unknown code with a not-found
\* response (404), not with an unhandled exception of the handler.
C9_NotFoundResponse ==
  \A q \in Workers :
    (http[q] /\ ResolveDone(q) /\ record[q] = None /\ response[q] # NoResponse) =>
      response[q].status = 404

\* C10: two successful shorten calls with the same original_url made two distinct rows
\* with distinct ids and returned two distinct codes.
C10_SameUrlTwice ==
  \A p, q \in Workers :
    (p # q /\ ShortenDone(p) /\ ShortenDone(q) /\ arg[p] = arg[q]) =>
      /\ url_shortener[p].id # url_shortener[q].id
      /\ result[p] # result[q]
      /\ {url_shortener[p].id, url_shortener[q].id} \subseteq DOMAIN db
      /\ db[url_shortener[p].id].original_url = arg[p]
      /\ db[url_shortener[q].id].original_url = arg[q]

C10_Witness ==
  \E p, q \in Workers :
    p # q /\ ShortenDone(p) /\ ShortenDone(q) /\ arg[p] = arg[q] /\ result[p] # result[q]

\* C11: every row follows Pending -> Resolved: it is inserted with shorted_url NULL, its
\* shorted_url leaves NULL at most once and never changes once set, its id and
\* original_url stay as inserted, and no step removes a row.
C11_RowStep ==
  /\ \A i \in DOMAIN db :
        /\ i \in DOMAIN db'
        /\ db'[i].id = db[i].id
        /\ db'[i].original_url = db[i].original_url
        /\ HasCode(i) => db'[i].shorted_url = db[i].shorted_url
  /\ \A i \in DOMAIN db' \ DOMAIN db : db'[i].shorted_url = NULL

C11_Lifecycle == [][C11_RowStep]_vars

C11_Witness ==
  \E i, j \in DOMAIN db :
    /\ HasCode(i) /\ ~HasCode(j)
    /\ \E p \in Workers : Orphaned(p) /\ url_shortener[p].id = j
    /\ \E q \in Workers : ResolveDone(q) /\ IsRow(record[q]) /\ record[q].id = i

\* value of an alphabet symbol: its index, counted from 0
SymbolValue(ch) == (CHOOSE i \in 1..62 : BASE62_ALPHABET[i] = ch) - 1

\* value of s read as a base-62 numeral, most significant symbol first
RECURSIVE Decode62(_)
Decode62(s) ==
  IF s = <<>> THEN 0
  ELSE 62 * Decode62(SubSeq(s, 1, Len(s) - 1)) + SymbolValue(s[Len(s)])

RECURSIVE Pow62(_)
Pow62(k) == IF k = 0 THEN 1 ELSE 62 * Pow62(k - 1)

Encoded == encOut # NULL

\* C12: round trip: for every n >= 0, encode(n) read as a base-62 numeral over the same
\* alphabet (most significant symbol first) is n.
C12_RoundTrip ==
  (Encoded /\ encNum >= 0) =>
    /\ \A k \in 1..Len(encOut) : \E i \in 1..62 : BASE62_ALPHABET[i] = encOut[k]
    /\ Decode62(encOut) = encNum

C12_Witness == Encoded /\ Len(encOut) = 3 /\ encOut[1] # encOut[3] /\ encOut[2] # encOut[3]

\* C13: encode_base62 is the standard base-62 positional encoding: encode(0) = "0";
\* for n > 0 the result has the k symbols with 62^(k-1) <= n < 62^k, the i-th being the
\* symbol of the digit (n div 62^(k-i)) mod 62; encode(61) = "z" and encode(62) = "10".
C13_Positional ==
  (Encoded /\ encNum >= 0) =>
    /\ encNum = 0 => encOut = <<"0">>
    /\ encNum = 61 => encOut = <<"z">>
    /\ encNum = 62 => encOut = <<"1", "0">>
    /\ encNum > 0 =>
          LET k == Len(encOut)
          IN /\ k >= 1
             /\ Pow62(k - 1) <= encNum /\ encNum < Pow62(k)
             /\ \A i \in 1..k :
                   encOut[i] = BASE62_ALPHABET[((encNum \div Pow62(k - i)) % 62) + 1]

C13_Witness == Encoded /\ encNum = 62 /\ encOut = <<"1", "0">>

\* C14: the generator rejects negative input: for n < 0 it returns no string.
C14_NegativeRejected == encNum < 0 => encOut = NULL

\* a URL is syntactically valid when it has a scheme and a host
SyntacticallyValid(b) == b.scheme # "" /\ b.host # ""
InvalidTexts == {body_text(b) : b \in {x \in Bodies : ~SyntacticallyValid(x)}}
ValidTexts == {body_text(b) : b \in {x \in Bodies : SyntacticallyValid(x)}}
InvalidPost(p) == op[p] = "shorten" /\ http[p] /\ arg[p] \in InvalidTexts

\* the service runs for a POST only with the text of a syntactically valid URL; a
\* request with any other text is rejected and has made no storage step
C15_Rejected ==
  \A p \in Workers :
    /\ (op[p] = "shorten" /\ http[p] /\ pc[p] # "rejected") => arg[p] \in ValidTexts
    /\ InvalidPost(p) =>
          /\ pc[p] = "rejected"
          /\ response[p] = [status |-> 422]
          /\ events[p] = <<>>
          /\ url_shortener[p] = None /\ result[p] = NULL

C15_RejectStep ==
  \A p \in Workers :
    (InvalidPost(p)' /\ pc'[p] = "rejected" /\ pc[p] # "rejected") =>
      /\ db' = db /\ allocated' = allocated
      /\ events'[p] = <<>>

\* C15: a POST /api/generator whose body url is not a syntactically valid URL ends in a
\* validation failure (422) before the service is called: no insert is attempted for
\* it and the stored rows are unchanged.
C15_InvalidUrlRejected == []C15_Rejected /\ [][C15_RejectStep]_vars

C15_Witness ==
  \E p \in Workers :
    /\ InvalidPost(p) /\ pc[p] = "rejected" /\ response[p] = [status |-> 422]
    /\ DOMAIN db # {}

\* the storage steps one call may make: at most one insert and one update for a
\* shorten call, at most one select for a resolve call
ShortenEvents ==
  {<<>>, <<"insert">>, <<"insert_failed">>, <<"insert", "update">>,
   <<"insert", "update_failed">>}
ResolveEvents == {<<>>, <<"select">>, <<"select_failed">>}
LastFailed(p) ==
  events[p] # <<>> /\ events[p][Len(events[p])] \in {"insert_failed", "update_failed", "select_failed"}

\* C16: no automatic retry: a shorten call makes at most one insert attempt and at most
\* one update attempt, a resolve call at most one lookup; a failed attempt ends the call
\* in the same step, a constraint violation as ValueError and any other storage failure
\* as RuntimeError.
C16_NoRetry ==
  \A p \in Workers :
    /\ op[p] = "shorten" => events[p] \in ShortenEvents
    /\ op[p] = "resolve" => events[p] \in ResolveEvents
    /\ LastFailed(p) => (fault[p] # "none" /\ pc[p] = "failed")
    /\ fault[p] = "IntegrityError" => (pc[p] = "failed" /\ error[p] = "ValueError")
    /\ fault[p] \notin {"none", "IntegrityError"} =>
          (pc[p] = "failed" /\ error[p] = "RuntimeError")

C16_Witness ==
  \E p, q \in Workers :
    /\ events[p] = <<"insert", "update_failed">> /\ fault[p] = "IntegrityError"
    /\ error[p] = "ValueError"
    /\ events[q] = <<"select_failed">> /\ error[q] = "RuntimeError"

\* number of calls c in the trace t of a session
Calls(t, c) == Cardinality({k \in 1..Len(t) : t[k] = c})
\* sessions of worker p that were opened and not closed
StillOpen(p) == Calls(session[p], "open") - Calls(session[p], "close")

\* C17: every session acquired through get_session is released on every exit path: it
\* is committed when the body completes normally, rolled back when the body or the
\* commit raises, and closed last in both cases; no session remains open.
C17_SessionsReleased ==
  \A p \in Workers :
    /\ StillOpen(p) = 0
    /\ session[p] # <<>> =>
          /\ session[p][1] = "open" /\ Calls(session[p], "open") = 1
          /\ session[p][Len(session[p])] = "close" /\ Calls(session[p], "close") = 1
          /\ fault[p] = "none" => session[p] = <<"open", "commit", "close">>
          /\ fault[p] # "none" =>
                /\ session[p][Len(session[p]) - 1] = "rollback"
                /\ Calls(session[p], "commit") = 0

C17_Witness ==
  \E p, q \in Workers :
    /\ pc[p] = "failed" /\ session[p] = <<"open", "commit_failed", "rollback", "close">>
    /\ pc[q] = "failed" /\ session[q] = <<"open", "rollback", "close">>
    /\ \E i \in DOMAIN db : HasCode(i)

\* C18: GET /health always answers with the two booleans db and redis: db is true
\* exactly when the database check of that call succeeded, redis exactly when the
\* cache ping succeeded; an unreachable collaborator gives false, never an error.
C18_HealthAnswers ==
  \A p \in Workers :
    op[p] = "health" =>
      /\ pc[p] = "done" /\ error[p] = "none"
      /\ DOMAIN response[p] = {"status", "db", "redis"}
      /\ response[p].status = 200
      /\ response[p].db \in BOOLEAN /\ response[p].redis \in BOOLEAN
      /\ response[p].db <=> checks[p].db = "ok"
      /\ response[p].redis <=> checks[p].redis = "PONG"

C18_Witness ==
  \E p, q \in Workers :
    /\ op[p] = "health" /\ checks[p] = [db |-> "ok", redis |-> "ConnectionError"]
    /\ response[p] = [status |-> 200, db |-> TRUE, redis |-> FALSE]
    /\ op[q] = "health" /\ checks[q] = [db |-> "OperationalError", redis |-> "PONG"]
    /\ response[q] = [status |-> 200, db |-> FALSE, redis |-> TRUE]

\* C19: resolve returns a row only when the row's shorted_url equals the code given,
\* symbol for symbol (no prefix, partial or case-insensitive match); a row whose
\* shorted_url is still NULL is never returned.
C19_ExactMatch ==
  \A q \in Workers :
    (ResolveDone(q) /\ IsRow(record[q])) =>
      /\ record[q].shorted_url # NULL
      /\ record[q].shorted_url = arg[q]
      /\ Len(record[q].shorted_url) = Len(arg[q])

C19_Witness ==
  \E p, q \in Workers, i, j \in DOMAIN db :
    /\ ResolveDone(q) /\ IsRow(record[q]) /\ record[q].id = i
    /\ db[i].shorted_url = <<"A", "A">>
    /\ ~HasCode(j)
    /\ ResolveDone(p) /\ arg[p] \in {<<"A">>, <<"a", "a">>} /\ record[p] = None

\* C20: under any interleaving of calls and any (unique, not necessarily increasing)
\* allocation of ids, a row returned by resolve(c) is the one stored row whose id
\* encodes to c, with the URL it was inserted with; it never carries the URL of a
\* different shorten call.
C20_OwnUrlOnly ==
  \A q \in Workers :
    (ResolveDone(q) /\ IsRow(record[q])) =>
      /\ encode_base62(record[q].id) = arg[q]
      /\ record[q].id \in DOMAIN db
      /\ db[record[q].id].original_url = record[q].original_url
      /\ \A i \in DOMAIN db : encode_base62(i) = arg[q] => i = record[q].id
      /\ \A p \in Workers :
            (op[p] = "shorten" /\ IsRow(url_shortener[p])
                /\ url_shortener[p].id = record[q].id) =>
              arg[p] = record[q].original_url

C20_Witness ==
  \E p, q \in Workers :
    /\ ResolveDone(q) /\ IsRow(record[q]) /\ record[q].id = seq_base + 2
    /\ op[p] = "shorten" /\ pc[p] = "update"
    /\ url_shortener[p].id = seq_base + 1
    /\ arg[p] # record[q].original_url

\* passes of the while loop for input num: every pass appends one symbol
Divisions(num) == Len(encode_loop(num, <<>>))

\* C21: for every negative n, encode_base62(n) runs its division loop zero times and
\* returns the empty string; no error is signalled.
C21_NegativeGivesEmpty ==
  (Encoded /\ encNum < 0) => (Divisions(encNum) = 0 /\ encOut = <<>>)

C21_Witness == Encoded /\ encNum = 0 - NegNum /\ encOut = <<>>

\* C22: encode(0) has length 1; for n > 0 the length of encode(n) is the unique k >= 1
\* with 62^(k-1) <= n < 62^k, the first symbol is not "0" and the loop ends after
\* exactly k divisions.
C22_Length ==
  (Encoded /\ encNum >= 0) =>
    /\ encNum = 0 => Len(encOut) = 1
    /\ encNum > 0 =>
          LET k == Len(encOut)
          IN /\ k >= 1
             /\ \A j \in 1..4 : (Pow62(j - 1) <= encNum /\ encNum < Pow62(j)) <=> j = k
             /\ encOut[1] # "0"
             /\ Divisions(encNum) = k

C22_Witness == Encoded /\ encNum = Pow62(2) /\ Len(encOut) = 3 /\ Divisions(encNum) = 3

Digits == {"0", "1", "2", "3", "4", "5", "6", "7", "8", "9"}
Uppercase ==
  {"A", "B", "C", "D", "E", "F", "G", "H", "I", "J", "K", "L", "M",
   "N", "O", "P", "Q", "R", "S", "T", "U", "V", "W", "X", "Y", "Z"}
Lowercase ==
  {"a", "b", "c", "d", "e", "f", "g", "h", "i", "j", "k", "l", "m",
   "n", "o", "p", "q", "r", "s", "t", "u", "v", "w", "x", "y", "z"}

\* C23: the alphabet is a sequence of 62 pairwise distinct symbols, the digits, then the
\* upper-case letters, then the lower-case letters, "0" first and "z" last; for every
\* n >= 0, encode(n) is a non-empty string of symbols of the alphabet.
C23_Alphabet ==
  /\ Len(BASE62_ALPHABET) = 62 /\ BASE = 62
  /\ \A i, j \in 1..62 : BASE62_ALPHABET[i] = BASE62_ALPHABET[j] => i = j
  /\ \A i \in 1..10 : BASE62_ALPHABET[i] \in Digits
  /\ \A i \in 11..36 : BASE62_ALPHABET[i] \in Uppercase
  /\ \A i \in 37..62 : BASE62_ALPHABET[i] \in Lowercase
  /\ BASE62_ALPHABET[1] = "0" /\ BASE62_ALPHABET[62] = "z"
  /\ (Encoded /\ encNum >= 0) =>
        /\ encOut # <<>>
        /\ \A k \in 1..Len(encOut) : encOut[k] \in Digits \cup Uppercase \cup Lowercase

C23_Witness == Encoded /\ encNum = 0 /\ Len(encOut) = 1

\* s comes strictly before t: shorter first, then symbol by symbol by alphabet index
Before(s, t) ==
  \/ Len(s) < Len(t)
  \/ /\ Len(s) = Len(t)
     /\ \E k \in 1..Len(s) :
          /\ \A j \in 1..(k - 1) : s[j] = t[j]
          /\ SymbolValue(s[k]) < SymbolValue(t[k])

\* C24: encode is order-preserving: for all 0 <= a < b, encode(a) comes strictly before
\* encode(b), codes compared by length and then symbol by symbol by alphabet index.
C24_OrderPreserving ==
  (Encoded /\ encNum >= 0) =>
    \A a \in 0..(encNum - 1) : Before(encode_base62(a), encOut)

C24_Witness ==
  /\ Encoded /\ encNum = 124 /\ encOut = <<"2", "0">>
  /\ Before(encode_base62(63), encOut)

\* worker p takes its code-assignment step (update) in this step
UpdateStepOf(p) == op[p] = "shorten" /\ pc[p] = "update" /\ pc'[p] \in {"return", "failed"}

C25_FrameStep ==
  /\ \A q \in Workers : (op[q] = "resolve" /\ pc[q] = "lookup" /\ pc'[q] # "lookup") => db' = db
  /\ \A i \in DOMAIN db :
        /\ i \in DOMAIN db'
        /\ db'[i] # db[i] =>
              /\ \E p \in Workers :
                    /\ UpdateStepOf(p)
                    /\ IsRow(url_shortener[p]) /\ url_shortener[p].id = i
                    /\ db'[i].shorted_url = shorted_link[p]
              /\ db'[i].id = db[i].id
              /\ db'[i].original_url = db[i].original_url
              /\ db'[i].created_at = db[i].created_at
  /\ \A i \in DOMAIN db' \ DOMAIN db :
        /\ \E p \in Workers :
              /\ op[p] = "shorten" /\ pc[p] = "create" /\ pc'[p] = "generate"
              /\ url_shortener'[p].id = i
        /\ \A j \in DOMAIN db : db'[j] = db[j]

\* C25: frame conditions: resolve leaves every stored row unchanged; a shorten call
\* changes no field of any row but the one it inserted; its code-assignment step changes
\* only shorted_url and updated_at of its own row, leaving id, original_url and
\* created_at as they were at insertion.
C25_Frame == [][C25_FrameStep]_vars

C25_Witness ==
  \E p, q \in Workers, j \in DOMAIN db :
    /\ op[p] = "shorten" /\ pc[p] = "return" /\ IsRow(url_shortener[p])
    /\ url_shortener[p].id # j
    /\ db[url_shortener[p].id] =
          [id |-> url_shortener[p].id, original_url |-> arg[p],
           shorted_url |-> shorted_link[p], created_at |-> "now()", updated_at |-> "now()"]
    /\ db[j].shorted_url = NULL /\ db[j].updated_at = "NULL"
    /\ ResolveDone(q)

\* a shorten call without a URL (None given to the service, or a body without url)
MissingUrl(p) == op[p] = "shorten" /\ (arg[p] = NoneUrl \/ (http[p] /\ arg[p] = ""))
\* a shorten call with a URL of more than 2048 characters
OverlongUrl(p) == op[p] = "shorten" /\ arg[p] # NoneUrl /\ Len(arg[p]) > 2048

====
